---- MODULE Spec2Model ----
(***************************************************************************)
(* Child side of a cross-window component (ChildComponent) and the parent  *)
(* side render drivers.  One execution context (a window) holds one or     *)
(* more ChildComponent instances; the window's parent window, its          *)
(* parent-component window and the window name are the environment.        *)
(*                                                                         *)
(* User supplied handlers (onEnter, onClose, onProps, onError) are         *)
(* recorded in the instance's history when they are invoked.  They return   *)
(* normally, except under the specification SpecThrow, where the handlers  *)
(* in throws throw on every call.                                          *)
(***************************************************************************)
EXTENDS Naturals, Sequences, FiniteSets, Bags, TLC

\* ---------------------------------------------------------------- bounds
\* Inputs from outside the instance (calls of close(), inbound PROPS and CLOSE
\* messages, windows going away) that one run takes.
MaxInputs == 3

Inst == {1, 2}
Tags == {"foo", "bar"}

\* ------------------------------------------------------------- constants
POST_MESSAGE == [INIT |-> "INIT", PROPS |-> "PROPS", CLOSE |-> "CLOSE",
                 RESIZE |-> "RESIZE", ERROR |-> "ERROR"]
CONTEXT_TYPES == [IFRAME |-> "iframe", POPUP |-> "popup"]

Null == "null"
ParentWin == "parent"
ComponentWin == "pc"

\* ---------------------------------------------------------------- errors
Err(kind, t, found) == [kind |-> kind, tag |-> t, found |-> found]
NoErr == Err("none", "-", "-")
DeliveryErr == Err("Delivery", "-", "-")

\* ------------------------------------------------------------ props bags
\* A props bag is an ordered mapping: a sequence of <<key, value>> pairs
\* with pairwise distinct keys.
P(k, v) == <<k, v>>
DefaultBags == { <<P("x", 1), P("y", 1)>> }
MsgBags == { <<P("x", 2)>>, <<P("z", 3), P("y", 2)>> }

KeysOf(bag) == { bag[n][1] : n \in 1..Len(bag) }
HasKey(bag, k) == k \in KeysOf(bag)

IndexOf(bag, k) == CHOOSE n \in 1..Len(bag) : bag[n][1] = k

\* obj[k] = v: an existing key keeps its position, a new key goes last.
Put(bag, k, v) ==
    IF HasKey(bag, k)
    THEN SubSeq(bag, 1, IndexOf(bag, k) - 1) \o << P(k, v) >>
         \o SubSeq(bag, IndexOf(bag, k) + 1, Len(bag))
    ELSE Append(bag, P(k, v))

RECURSIVE extend(_, _)
extend(obj, source) ==
    IF source = <<>> THEN obj
    ELSE extend(Put(obj, Head(source)[1], Head(source)[2]), Tail(source))

Never == << "never" >>
\* Dimensions: pixels or a percentage.
Px(n) == [n |-> n, unit |-> "px"]
Pct(n) == [n |-> n, unit |-> "%"]
NoCall == [op |-> "-", inst |-> 0, arg |-> NoErr, n |-> 0]

\* ----------------------------------------------------------------- state
VARIABLES
    active,        \* window.__activeXComponent__: 0 or the instance holding it
    hasParent,     \* getParentWindow() finds a window
    pcKind,        \* parent-component window: "none", "same" (= parent) or "distinct"
    winTag,        \* tag carried by window.name
    ctxType,       \* context type the parent rendered this window in
    open,          \* liveness of the parent and the parent-component window
    localClosed,   \* window.close() has been called on the local window
    tag,           \* [Inst -> Tags]  component.tag
    standalone,    \* [Inst -> BOOLEAN]  options.standalone
    defaultProps,  \* [Inst -> bag]  normalizeProps(component, this, options.defaultProps)
    props,         \* [Inst -> bag]  this.props
    context,       \* [Inst -> ...]  this.context
    pc,            \* [Inst -> ...]  position of init()
    thrown,        \* [Inst -> Err]  what setWindows threw; init() rethrew it iff
                   \* pc is "threw", and swallowed it iff pc is "standalone"
    listening,     \* [Inst -> SUBSET windows]  windows this.listen() was called on
    watchParent,   \* [Inst -> ...]  parent-window watcher
    watchPC,       \* [Inst -> ...]  parent-component-window watcher
    hist,          \* [Inst -> Bag(event)]  what the instance did: each event with
                   \* the handler run it belongs to and its position in that run
    initReq,       \* [Inst -> ...]  state of the INIT request's promise
    seen,          \* [Inst -> ...]  this.props as onEnter and onProps last saw it
    got,           \* [Inst -> ...]  the INIT reply, the last PROPS message handled and
                   \* the number of PROPS messages handled; the source of the last
                   \* CLOSE message handled and the number of CLOSE messages
                   \* handled; the number of CLOSE relays that failed
    relay,         \* [Inst -> Nat]  CLOSE relays to the parent awaiting an outcome
    triggered,     \* [Inst -> BOOLEAN]  some close trigger has acted on the instance
    nInputs,       \* inputs taken so far
    throws,        \* the user handlers that throw when they are called
    drv,           \* the parent side: one component instance being rendered
                   \* through a render driver
    called         \* the last call of error() or resize(): the instance, the
                   \* arguments, and how many such calls there have been

envVars == <<hasParent, pcKind, winTag, ctxType, tag, standalone, defaultProps>>
\* What the lifecycle handlers (init, the listeners, the watchers, close) leave alone.
otherVars == <<called, throws, drv>>
vars == <<active, hasParent, pcKind, winTag, ctxType, open, localClosed, tag,
          standalone, defaultProps, props, context, pc, thrown, listening,
          watchParent, watchPC, hist, seen, got, initReq, relay, triggered,
          nInputs, called, throws, drv>>

\* ---------------------------------------------------------------- events
Ev(ev, name, to, arg) ==
    [ev |-> ev, name |-> name, to |-> to, arg |-> arg, op |-> "-", seq |-> 0]
CallEv(cb, arg) == Ev("call", cb, "-", arg)
SendEv(to, name) == Ev("send", name, to, NoErr)
ListenEv(win) == Ev("listen", "-", win, NoErr)
WatchEv(win) == Ev("watch", "-", win, NoErr)
WinCloseEv == Ev("winclose", "-", "-", NoErr)
\* An exception leaving the code that has run so far.
ThrowEv == Ev("throw", "-", "-", NoErr)

Events(l, ev) == { n \in 1..Len(l) : l[n].ev = ev }

\* Event e as the n-th event of a run of handler op.
Stamp(e, op, n) == [e EXCEPT !.op = op, !.seq = n]

\* The history h extended by the events evs of one run of handler op.
Record(h, op, evs) ==
    h (+) SetToBag({ Stamp(evs[n], op, n) : n \in 1..Len(evs) })

Calls(h, cb) == { e \in BagToSet(h) : e.ev = "call" /\ e.name = cb }
Sends(h, name) == { e \in BagToSet(h) : e.ev = "send" /\ e.name = name }
Count(h, S) == BagCardinality([e \in S |-> h[e]])

\* ------------------------------------------------------ window discovery
getParentWindow == IF hasParent THEN ParentWin ELSE Null
getParentComponentWindow ==
    CASE pcKind = "none" -> Null
      [] pcKind = "same" -> ParentWin
      [] OTHER -> ComponentWin
parseWindowName == [tag |-> winTag]

\* ------------------------------------------------------- guarded handlers
Handlers == {"onEnter", "onClose", "onProps", "onError"}
HandlerErr == Err("HandlerThrew", "-", "-")

\* Every handler redirected to onError, onProps included.
Guarded_all == [cb \in Handlers |-> TRUE]

\* The second argument of this.tryCatch for each handler (true when left out).
Guarded ==
    [onEnter |-> TRUE, onClose |-> TRUE, onProps |-> FALSE, onError |-> TRUE]

\* Handlers wrapped so that they fire at most once.
OnceHandlers == {"onClose"}

Escapes(evs) == evs # <<>> /\ evs[Len(evs)] = ThrowEv
\* a, then b unless an exception left a.
Then(a, b) == IF Escapes(a) THEN a ELSE a \o b

\* The events of calling the wrapper of handler cb on an instance whose history
\* is h.  What a throwing handler throws goes to onError when the handler is
\* guarded, and is dropped when it is not; what onError throws leaves the wrapper.
tryCatch(h, cb, arg) ==
    IF cb \in OnceHandlers /\ Calls(h, cb) # {}
    THEN <<>>
    ELSE << CallEv(cb, arg) >>
         \o (IF cb \notin throws THEN <<>>
             ELSE IF cb = "onError" THEN << ThrowEv >>
             ELSE IF Guarded[cb]
             THEN << CallEv("onError", HandlerErr) >>
                  \o (IF "onError" \in throws THEN << ThrowEv >> ELSE <<>>)
             ELSE <<>>)

\* ------------------------------------------------------------- messaging
sendToParent(name) == << SendEv(getParentWindow, name) >>
sendToParentComponent(name) == << SendEv(getParentComponentWindow, name) >>
listen(win) == << ListenEv(win) >>

\* ------------------------------------------------------------ setWindows
\* The parent-component watcher is started only for a distinct window.
WatchesComponent ==
    getParentComponentWindow # Null /\ getParentComponentWindow # getParentWindow

watchForClose ==
    << WatchEv(ParentWin) >> \o (IF WatchesComponent THEN << WatchEv(ComponentWin) >> ELSE <<>>)

\* setWindows taking the single-instance marker only once all its checks passed.
setWindows_markLast(i) ==
    IF active # 0
    THEN [err |-> Err("MultipleAttach", tag[i], "-"), marked |-> FALSE, events |-> <<>>]
    ELSE IF getParentWindow = Null
    THEN [err |-> Err("NoParent", tag[i], "-"), marked |-> FALSE, events |-> <<>>]
    ELSE IF getParentComponentWindow = Null
    THEN [err |-> Err("NoParentComponent", tag[i], "-"), marked |-> FALSE, events |-> <<>>]
    ELSE IF parseWindowName.tag # tag[i]
    THEN [err |-> Err("TagMismatch", tag[i], parseWindowName.tag), marked |-> FALSE,
          events |-> <<>>]
    ELSE [err |-> NoErr, marked |-> TRUE, events |-> watchForClose]

\* setWindows starting the watchers before it checks the tag.
setWindows_watchFirst(i) ==
    IF active # 0
    THEN [err |-> Err("MultipleAttach", tag[i], "-"), marked |-> FALSE, events |-> <<>>]
    ELSE IF getParentWindow = Null
    THEN [err |-> Err("NoParent", tag[i], "-"), marked |-> TRUE, events |-> <<>>]
    ELSE IF getParentComponentWindow = Null
    THEN [err |-> Err("NoParentComponent", tag[i], "-"), marked |-> TRUE, events |-> <<>>]
    ELSE IF parseWindowName.tag # tag[i]
    THEN [err |-> Err("TagMismatch", tag[i], parseWindowName.tag), marked |-> TRUE,
          events |-> watchForClose]
    ELSE [err |-> NoErr, marked |-> TRUE, events |-> watchForClose]

\* err: what setWindows throws (NoErr: it returns); marked: whether it reached
\* the assignment of the single-instance marker; events: what it started.
setWindows(i) ==
    IF active # 0
    THEN [err |-> Err("MultipleAttach", tag[i], "-"), marked |-> FALSE, events |-> <<>>]
    ELSE IF getParentWindow = Null
    THEN [err |-> Err("NoParent", tag[i], "-"), marked |-> TRUE, events |-> <<>>]
    ELSE IF getParentComponentWindow = Null
    THEN [err |-> Err("NoParentComponent", tag[i], "-"), marked |-> TRUE, events |-> <<>>]
    ELSE IF parseWindowName.tag # tag[i]
    THEN [err |-> Err("TagMismatch", tag[i], parseWindowName.tag), marked |-> TRUE,
          events |-> <<>>]
    ELSE [err |-> NoErr, marked |-> TRUE, events |-> watchForClose]

\* ------------------------------------------------------------------ Init
Constructed ==
    /\ active = 0
    /\ hasParent \in BOOLEAN
    /\ pcKind \in {"none", "same", "distinct"}
    /\ (pcKind # "none" => hasParent)
    /\ winTag = "foo"
    /\ ctxType \in {CONTEXT_TYPES.IFRAME, CONTEXT_TYPES.POPUP}
    /\ open = [w \in {ParentWin, ComponentWin} |-> TRUE]
    /\ localClosed = FALSE
    /\ tag \in [Inst -> Tags]
    /\ standalone \in [Inst -> BOOLEAN]
    /\ props = defaultProps
    /\ context = [i \in Inst |-> "undefined"]
    /\ pc = [i \in Inst |-> "constructed"]
    /\ thrown = [i \in Inst |-> NoErr]
    /\ listening = [i \in Inst |-> {}]
    /\ watchParent = [i \in Inst |-> "none"]
    /\ watchPC = [i \in Inst |-> "none"]
    /\ hist = [i \in Inst |-> EmptyBag]
    /\ seen = [i \in Inst |-> [onEnter |-> Never, onProps |-> Never]]
    /\ got = [i \in Inst |-> [reply |-> Never, props |-> Never, nProps |-> 0,
                              closeFrom |-> Null, nClose |-> 0, nRelayFailed |-> 0]]
    /\ initReq = [i \in Inst |-> "none"]
    /\ relay = [i \in Inst |-> 0]
    /\ triggered = [i \in Inst |-> FALSE]
    /\ nInputs = 0
    /\ called = NoCall

\* The parent side before anything is rendered.
NoRender ==
    [context |-> Null, windowName |-> "-", proxyFrame |-> FALSE,
     proxyPrerenderFrame |-> FALSE, dimensions |-> [width |-> Px(0), height |-> Px(0)],
     open |-> "idle", prerender |-> "idle", frame |-> "none", win |-> Null,
     popupOptions |-> [name |-> "-", width |-> 0, height |-> 0], clean |-> <<>>, watcher |-> "none", closeCalls |-> 0]

Init ==
    /\ defaultProps \in [Inst -> DefaultBags]
    /\ throws = {}
    /\ drv = NoRender
    /\ Constructed

\* ------------------------------------------------------------------ init
\* init() falling through to the handshake after a swallowed setWindows failure.
initOutcome_noReturn(i) ==
    LET sw == setWindows(i) IN
    IF sw.err # NoErr /\ ~standalone[i]
    THEN [pc |-> "threw", err |-> sw.err, events |-> sw.events]
    ELSE [pc |-> "awaiting", err |-> sw.err,
          events |-> sw.events
                     \o listen(getParentComponentWindow)
                     \o (IF getParentWindow # getParentComponentWindow
                         THEN listen(getParentWindow) ELSE <<>>)
                     \o sendToParentComponent(POST_MESSAGE.INIT)]

\* init() sending INIT before it registers its listeners.
initOutcome_sendFirst(i) ==
    LET sw == setWindows(i) IN
    IF sw.err # NoErr
    THEN IF standalone[i]
         THEN [pc |-> "standalone", err |-> sw.err, events |-> sw.events]
         ELSE [pc |-> "threw", err |-> sw.err, events |-> sw.events]
    ELSE IF standalone[i] /\ getParentComponentWindow = Null
    THEN [pc |-> "standalone", err |-> NoErr, events |-> sw.events]
    ELSE [pc |-> "awaiting", err |-> NoErr,
          events |-> sw.events
                     \o sendToParentComponent(POST_MESSAGE.INIT)
                     \o listen(getParentComponentWindow)
                     \o (IF getParentWindow # getParentComponentWindow
                         THEN listen(getParentWindow) ELSE <<>>)]

\* The outcome of init(): how it ends and the events it produces.
initOutcome(i) ==
    LET sw == setWindows(i) IN
    IF sw.err # NoErr
    THEN IF standalone[i]
         THEN [pc |-> "standalone", err |-> sw.err, events |-> sw.events]
         ELSE [pc |-> "threw", err |-> sw.err, events |-> sw.events]
    ELSE IF standalone[i] /\ getParentComponentWindow = Null
    THEN [pc |-> "standalone", err |-> NoErr, events |-> sw.events]
    ELSE [pc |-> "awaiting", err |-> NoErr,
          events |-> sw.events
                     \o listen(getParentComponentWindow)
                     \o (IF getParentWindow # getParentComponentWindow
                         THEN listen(getParentWindow) ELSE <<>>)
                     \o sendToParentComponent(POST_MESSAGE.INIT)]

init(i) ==
    /\ pc[i] = "constructed"
    /\ ~localClosed
    /\ LET sw == setWindows(i)
           out == initOutcome(i)
       IN /\ active' = IF sw.marked THEN i ELSE active
          /\ pc' = [pc EXCEPT ![i] = out.pc]
          /\ thrown' = [thrown EXCEPT ![i] = out.err]
          /\ hist' = [hist EXCEPT ![i] = Record(@, "init", out.events)]
          /\ listening' = [listening EXCEPT ![i] =
                 { out.events[n].to : n \in Events(out.events, "listen") }]
          /\ watchParent' = [watchParent EXCEPT ![i] =
                 IF \E n \in Events(out.events, "watch") : out.events[n].to = ParentWin
                 THEN "watching" ELSE "none"]
          /\ watchPC' = [watchPC EXCEPT ![i] =
                 IF \E n \in Events(out.events, "watch") : out.events[n].to = ComponentWin
                 THEN "watching" ELSE "none"]
          /\ initReq' = [initReq EXCEPT ![i] =
                 IF out.pc = "awaiting" THEN "pending" ELSE "none"]
    /\ UNCHANGED <<envVars, otherVars, seen, got,
                   open, localClosed, props, context, relay, triggered,
                   nInputs>>

\* The rejection swallowed instead of handed to onError.
initCatch_swallow(i, err) ==
    [context |-> context[i], props |-> props[i], events |-> <<>>, seen |-> seen[i]]

\* The callback run when the INIT request is rejected with err.
initCatch(i, err) ==
    [context |-> context[i],
     props |-> props[i],
     events |-> tryCatch(hist[i], "onError", err),
     seen |-> seen[i]]

\* The handlers called before the reply's context and props are stored.
initThen_callsBeforeMerge(i, data) ==
    [context |-> data.context,
     props |-> extend(props[i], data.props),
     events |-> tryCatch(hist[i], "onEnter", NoErr) \o tryCatch(hist[i], "onProps", NoErr),
     seen |-> [onEnter |-> props[i], onProps |-> props[i]]]

\* The callback run when the INIT request is answered with data = {context, props}:
\* the fields it assigns, the handlers it calls and the props each handler sees.
initThen(i, data) ==
    LET merged == extend(props[i], data.props)
        entered == tryCatch(hist[i], "onEnter", NoErr)
    IN [context |-> data.context,
        props |-> merged,
        events |-> Then(entered, tryCatch(hist[i], "onProps", NoErr)),
        seen |-> [onEnter |-> merged,
                  onProps |-> IF Escapes(entered) THEN seen[i].onProps ELSE merged]]

\* The INIT request's promise chain once the request is answered: the reply
\* callback, and the rejection callback for what leaves the reply callback.
initSettle(i, data) ==
    LET t == initThen(i, data).events
    IN IF Escapes(t) THEN t \o initCatch(i, HandlerErr).events ELSE t

initResolved(i, data) ==
    /\ initReq[i] = "pending"
    /\ ~localClosed
    /\ initReq' = [initReq EXCEPT ![i] = "resolved"]
    /\ pc' = [pc EXCEPT ![i] = "running"]
    /\ context' = [context EXCEPT ![i] = initThen(i, data).context]
    /\ props' = [props EXCEPT ![i] = initThen(i, data).props]
    /\ hist' = [hist EXCEPT ![i] = Record(@, "initResolved", initSettle(i, data))]
    /\ seen' = [seen EXCEPT ![i] = initThen(i, data).seen]
    /\ got' = [got EXCEPT ![i].reply = data]
    /\ UNCHANGED <<envVars, otherVars, active, open, localClosed, thrown, listening, watchParent,
                   watchPC, relay, triggered, nInputs>>

initRejected(i) ==
    /\ initReq[i] = "pending"
    /\ ~localClosed
    /\ initReq' = [initReq EXCEPT ![i] = "rejected"]
    /\ pc' = [pc EXCEPT ![i] = "failed"]
    /\ context' = [context EXCEPT ![i] = initCatch(i, DeliveryErr).context]
    /\ props' = [props EXCEPT ![i] = initCatch(i, DeliveryErr).props]
    /\ hist' = [hist EXCEPT ![i] = Record(@, "initRejected", initCatch(i, DeliveryErr).events)]
    /\ seen' = [seen EXCEPT ![i] = initCatch(i, DeliveryErr).seen]
    /\ UNCHANGED <<envVars, otherVars, got, active, open, localClosed, thrown, listening,
                   watchParent, watchPC, relay, triggered, nInputs>>

\* ----------------------------------------------------------------- close
\* close() calling the user's handler directly instead of its guarded wrapper.
closeEvents_unguarded(h, err) ==
    << CallEv("onClose", err) >> \o sendToParent(POST_MESSAGE.CLOSE)

\* What close(err) does on an instance whose history is h: onClose, then CLOSE
\* to the parent window.
closeEvents(h, err) ==
    Then(tryCatch(h, "onClose", err), sendToParent(POST_MESSAGE.CLOSE))

close(i, err) ==
    /\ ~localClosed
    /\ nInputs < MaxInputs
    /\ nInputs' = nInputs + 1
    /\ hist' = [hist EXCEPT ![i] = Record(@, "close", closeEvents(@, err))]
    /\ triggered' = [triggered EXCEPT ![i] = TRUE]
    /\ UNCHANGED <<envVars, otherVars, seen, got,
                   active, open, localClosed, props, context, pc, thrown,
                   listening, watchParent, watchPC, initReq, relay>>

\* ------------------------------------------------------- watcher callbacks
\* What the parent-window watcher's callback does.
parentClosedEvents(h, i) ==
    Then(tryCatch(h, "onClose", Err("ParentClosed", tag[i], "-")),
         IF context[i] = CONTEXT_TYPES.POPUP THEN << WinCloseEv >> ELSE <<>>)

parentWindowClosed(i) ==
    /\ ~localClosed
    /\ watchParent[i] = "watching"
    /\ ~open[ParentWin]
    /\ watchParent' = [watchParent EXCEPT ![i] = "fired"]
    /\ LET evs == parentClosedEvents(hist[i], i)
       IN /\ hist' = [hist EXCEPT ![i] = Record(@, "parentWindowClosed", evs)]
          /\ localClosed' = (Events(evs, "winclose") # {})
    /\ triggered' = [triggered EXCEPT ![i] = TRUE]
    /\ UNCHANGED <<envVars, otherVars, seen, got,
                   active, open, props, context, pc, thrown, listening,
                   watchPC, initReq, relay, nInputs>>

\* The parent-component watcher only notifying onClose, as the parent watcher does.
parentComponentClosedEvents_onCloseOnly(h, i) ==
    tryCatch(h, "onClose", Err("ComponentClosed", tag[i], "-"))

\* What the parent-component-window watcher's callback does.
parentComponentClosedEvents(h, i) ==
    closeEvents(h, Err("ComponentClosed", tag[i], "-"))

parentComponentWindowClosed(i) ==
    /\ ~localClosed
    /\ watchPC[i] = "watching"
    /\ ~open[ComponentWin]
    /\ watchPC' = [watchPC EXCEPT ![i] = "fired"]
    /\ hist' = [hist EXCEPT ![i] =
          Record(@, "parentComponentWindowClosed", parentComponentClosedEvents(@, i))]
    /\ triggered' = [triggered EXCEPT ![i] = TRUE]
    /\ UNCHANGED <<envVars, otherVars, seen, got,
                   active, open, localClosed, props, context, pc, thrown,
                   listening, watchParent, initReq, relay, nInputs>>

\* -------------------------------------------------------------- listeners
\* listeners[POST_MESSAGE.PROPS](source, data)
\* The message's props laid under this.props instead of over them.
propsHandler_under(i, data) ==
    LET merged == extend(data, props[i]) IN
    [props |-> merged,
     events |-> tryCatch(hist[i], "onProps", NoErr),
     seen |-> [seen[i] EXCEPT !.onProps = merged]]

\* this.props replaced by the message's props instead of extended with them.
propsHandler_replace(i, data) ==
    [props |-> data,
     events |-> tryCatch(hist[i], "onProps", NoErr),
     seen |-> [seen[i] EXCEPT !.onProps = data]]

propsHandler(i, data) ==
    LET merged == extend(props[i], data) IN
    [props |-> merged,
     events |-> tryCatch(hist[i], "onProps", NoErr),
     seen |-> [seen[i] EXCEPT !.onProps = merged]]

propsListener(i, source, data) ==
    /\ ~localClosed
    /\ source \in listening[i]
    /\ nInputs < MaxInputs
    /\ nInputs' = nInputs + 1
    /\ props' = [props EXCEPT ![i] = propsHandler(i, data).props]
    /\ hist' = [hist EXCEPT ![i] = Record(@, "propsListener", propsHandler(i, data).events)]
    /\ seen' = [seen EXCEPT ![i] = propsHandler(i, data).seen]
    /\ got' = [got EXCEPT ![i].props = data, ![i].nProps = @ + 1]
    /\ UNCHANGED <<envVars, otherVars, active, open, localClosed, context, pc, thrown, listening,
                   watchParent, watchPC, initReq, relay, triggered>>

\* listeners[POST_MESSAGE.CLOSE](source, data)
\* A CLOSE message taken as the parent's whatever window it comes from.
closeHandler_unrouted(h, source) ==
    tryCatch(h, "onClose", NoErr)

\* What the CLOSE listener does with a message from window source.
closeHandler(h, source) ==
    IF source = getParentWindow
    THEN tryCatch(h, "onClose", NoErr)
    ELSE sendToParent(POST_MESSAGE.CLOSE)

closeListener(i, source) ==
    /\ ~localClosed
    /\ source \in listening[i]
    /\ nInputs < MaxInputs
    /\ nInputs' = nInputs + 1
    /\ LET evs == closeHandler(hist[i], source)
       IN /\ hist' = [hist EXCEPT ![i] = Record(@, "closeListener", evs)]
          /\ relay' = [relay EXCEPT ![i] = @ + Cardinality(Events(evs, "send"))]
          /\ triggered' = [triggered EXCEPT ![i] = @ \/ Events(evs, "send") = {}]
    /\ got' = [got EXCEPT ![i].closeFrom = source, ![i].nClose = @ + 1]
    /\ UNCHANGED <<envVars, otherVars, seen,
                   active, open, localClosed, props, context, pc, thrown,
                   listening, watchParent, watchPC, initReq>>

\* The CLOSE relayed to the parent window is answered, or fails.
relaySettled(i, ok) ==
    /\ ~localClosed
    /\ relay[i] > 0
    /\ relay' = [relay EXCEPT ![i] = @ - 1]
    /\ hist' = [hist EXCEPT ![i] =
          IF ok THEN @
          ELSE Record(@, "relayRejected",
                      tryCatch(@, "onError", DeliveryErr))]
    /\ got' = [got EXCEPT ![i].nRelayFailed = IF ok THEN @ ELSE @ + 1]
    /\ UNCHANGED <<envVars, otherVars, seen,
                   active, open, localClosed, props, context, pc, thrown,
                   listening, watchParent, watchPC, initReq, triggered, nInputs>>

\* ------------------------------------------------------------ environment
\* The parent window, or the distinct parent-component window, goes away.
windowCloses(w) ==
    /\ open[w]
    /\ (w = ParentWin => hasParent)
    /\ (w = ComponentWin => pcKind = "distinct")
    /\ nInputs < MaxInputs
    /\ nInputs' = nInputs + 1
    /\ open' = [open EXCEPT ![w] = FALSE]
    /\ UNCHANGED <<envVars, otherVars, seen, got,
                   active, localClosed, props, context, pc, thrown,
                   listening, watchParent, watchPC, hist, initReq, relay, triggered>>

InitReplies == [context : {ctxType}, props : MsgBags]

Next ==
    \/ \E i \in Inst : init(i)
    \/ \E i \in Inst, data \in InitReplies : initResolved(i, data)
    \/ \E i \in Inst : initRejected(i)
    \/ \E i \in Inst, err \in {NoErr} : close(i, err)
    \/ \E i \in Inst : parentWindowClosed(i)
    \/ \E i \in Inst : parentComponentWindowClosed(i)
    \/ \E i \in Inst, w \in {ParentWin, ComponentWin}, data \in MsgBags :
           propsListener(i, w, data)
    \/ \E i \in Inst, w \in {ParentWin, ComponentWin} : closeListener(i, w)
    \/ \E i \in Inst, ok \in BOOLEAN : relaySettled(i, ok)
    \/ \E w \in {ParentWin, ComponentWin} : windowCloses(w)

Spec == Init /\ [][Next]_vars

\* ======================================================================
\* error() and resize()
\* ======================================================================
\* Error values: whether the value is an IntegrationError, its name, its
\* message and its stack ("" when it has none).  Texts are sequences of
\* pieces, so that string interpolation is concatenation.
JsError(integration, name, message, stack) ==
    [integration |-> integration, name |-> name, message |-> message, stack |-> stack]

ErrInputs ==
    { JsError(TRUE, "IntegrationError", << "bad prop" >>, "at validate"),
      JsError(TRUE, "IntegrationError", << "bad url" >>, ""),
      JsError(FALSE, "TypeError", << "x is undefined" >>, "at userCode"),
      JsError(FALSE, "Error", << "secret 42" >>, "at onEnter") }

\* new Error(`[${tag}] Child lifecycle method threw an error`), created in error().
LifecycleError(i) ==
    JsError(FALSE, "Error", << "[", tag[i], "] Child lifecycle method threw an error" >>,
            "at error")

\* err.toString()
toString(err) == << err.name, ": " >> \o err.message

sendToParentWith(name, data) == << Ev("send", name, getParentWindow, data) >>
sendToParentComponentWith(name, data) ==
    << Ev("send", name, getParentComponentWindow, data) >>

\* error() reporting the error it was given, whatever its kind.
errorPayload_passThrough(i, err) ==
    [error |-> IF err.stack # ""
               THEN err.message \o << "\n", err.stack >>
               ELSE toString(err)]

\* The data of the ERROR message error(err) sends.
errorPayload(i, err) ==
    LET e == IF ~err.integration THEN LifecycleError(i) ELSE err
    IN [error |-> IF e.stack # ""
                  THEN e.message \o << "\n", e.stack >>
                  ELSE toString(e)]

errorEvents(i, err) == sendToParentComponentWith(POST_MESSAGE.ERROR, errorPayload(i, err))

error(i, err) ==
    /\ ~localClosed
    /\ nInputs < MaxInputs
    /\ nInputs' = nInputs + 1
    /\ hist' = [hist EXCEPT ![i] = Record(@, "error", errorEvents(i, err))]
    /\ called' = [op |-> "error", inst |-> i, arg |-> err, n |-> called.n + 1]
    /\ UNCHANGED <<envVars, throws, drv, seen, got, active, open, localClosed, props,
                   context, pc, thrown, listening, watchParent, watchPC, initReq, relay,
                   triggered>>

ResizeEv(width, height) == Ev("resizeTo", "-", "-", [width |-> width, height |-> height])

\* resize() always asking the parent window.
resizeEvents_alwaysSend(i, width, height) ==
    sendToParentWith(POST_MESSAGE.RESIZE, [width |-> width, height |-> height])

\* What resize(width, height) does.
resizeEvents(i, width, height) ==
    IF context[i] = CONTEXT_TYPES.POPUP
    THEN << ResizeEv(width, height) >>
    ELSE sendToParentWith(POST_MESSAGE.RESIZE, [width |-> width, height |-> height])

resize(i, width, height) ==
    /\ ~localClosed
    /\ nInputs < MaxInputs
    /\ nInputs' = nInputs + 1
    /\ hist' = [hist EXCEPT ![i] = Record(@, "resize", resizeEvents(i, width, height))]
    /\ called' = [op |-> "resize", inst |-> i,
                  arg |-> [width |-> width, height |-> height], n |-> called.n + 1]
    /\ UNCHANGED <<envVars, throws, drv, seen, got, active, open, localClosed, props,
                   context, pc, thrown, listening, watchParent, watchPC, initReq, relay,
                   triggered>>

Dims == { <<100, 200>>, <<300, 200>> }

\* Instances of one component in a window rendered by a parent, with error()
\* and resize() called on them at any point of the handshake.
InitApi ==
    /\ Init
    /\ tag = [i \in Inst |-> winTag]
    /\ standalone = [i \in Inst |-> FALSE]

NextApi ==
    \/ \E i \in Inst : init(i)
    \/ \E i \in Inst, data \in InitReplies : initResolved(i, data)
    \/ \E i \in Inst, err \in ErrInputs : error(i, err)
    \/ \E i \in Inst, d \in Dims : resize(i, d[1], d[2])

SpecApi == InitApi /\ [][NextApi]_vars

\* ======================================================================
\* Throwing handlers
\* ======================================================================
\* Which of the user's handlers throw; an absent options.onError is the
\* default handler, which rethrows, and is a throwing onError.
ThrowSets ==
    { {"onEnter"}, {"onClose"}, {"onProps"}, {"onError"},
      {"onEnter", "onError"}, {"onClose", "onError"} }

InitThrow ==
    /\ defaultProps \in [Inst -> DefaultBags]
    /\ drv = NoRender
    /\ Constructed
    /\ pcKind = "distinct"
    /\ tag = [i \in Inst |-> winTag]
    /\ standalone = [i \in Inst |-> FALSE]
    /\ throws \in ThrowSets

SpecThrow == InitThrow /\ [][Next]_vars

\* ======================================================================
\* Merging props
\* ======================================================================
\* Bags over the keys x and y, in both key orders, overlapping and disjoint.
MergeBags ==
    { <<>>, << P("x", 1) >>, << P("x", 2) >>, << P("y", 2) >>,
      << P("x", 1), P("y", 1) >>, << P("y", 2), P("x", 2) >>, << P("y", 1), P("x", 1) >> }

\* One component rendered in an iframe by its parent: its defaults, the
\* handshake props of the INIT reply and the props of PROPS messages handled
\* after the reply are drawn from MergeBags.
InitMerge ==
    /\ \E d \in MergeBags : defaultProps = [i \in Inst |-> IF i = 1 THEN d ELSE <<>>]
    /\ throws = {}
    /\ drv = NoRender
    /\ Constructed
    /\ pcKind = "same"
    /\ ctxType = CONTEXT_TYPES.IFRAME
    /\ tag = [i \in Inst |-> winTag]
    /\ standalone = [i \in Inst |-> FALSE]

propsAfterReply(i, source, data) ==
    /\ initReq[i] = "resolved"
    /\ propsListener(i, source, data)

NextMerge ==
    \/ \E i \in Inst : init(i)
    \/ \E i \in Inst, data \in [context : {ctxType}, props : MergeBags] :
           initResolved(i, data)
    \/ \E i \in Inst, data \in MergeBags : propsAfterReply(i, ParentWin, data)

SpecMerge == InitMerge /\ [][NextMerge]_vars

\* ======================================================================
\* Render drivers (parent side)
\* ======================================================================
childVars == <<active, open, localClosed, props, context, pc, thrown, listening,
               watchParent, watchPC, hist, seen, got, initReq, relay, triggered,
               nInputs, called, throws>>

\* window.outerWidth of the parent window.
OuterWidth == 1000

normalizeDimension(dim, max) ==
    IF dim.unit = "%" THEN (max * dim.n) \div 100 ELSE dim.n

\* A function registered with this.clean: the calls it makes when it is run.
Call(fn, on) == [fn |-> fn, on |-> on]

\* What the iframe driver's open registers once the frame's window is there.
iframeTeardown(frame, win) ==
    << << Call("frameWatcher.cancel", frame) >>,
       << Call("destroyElement", frame) >>,
       << Call("cleanUpWindow", win) >> >>

\* The popup driver registering the clean-up of the window without closing it.
popupTeardown_noClose(win) ==
    << << Call("cleanUpWindow", win) >> >>

\* What the popup driver's open registers once the window is created.
popupTeardown(win) ==
    << << Call("closeWindow", win), Call("cleanUpWindow", win) >> >>

\* RENDER_DRIVERS[CONTEXT.IFRAME].open({ proxyFrame })
iframeOpen ==
    /\ drv.context = CONTEXT_TYPES.IFRAME
    /\ drv.open = "idle"
    /\ drv' = [drv EXCEPT !.open = IF drv.proxyFrame THEN "getting" ELSE "threw"]
    /\ UNCHANGED <<envVars, childVars>>

\* proxyFrame.get() is settled: with the frame element, or with a failure.
frameGot(ok) ==
    /\ drv.open = "getting"
    /\ drv' = [drv EXCEPT !.open = IF ok THEN "awaiting" ELSE "failed",
                          !.frame = IF ok THEN "attached" ELSE @]
    /\ UNCHANGED <<envVars, childVars>>

\* awaitFrameWindow(frame) is settled: with the frame's window, or with a failure.
frameWindowReady(ok) ==
    /\ drv.open = "awaiting"
    /\ ok => drv.frame = "attached"
    /\ drv' = IF ok
              THEN [drv EXCEPT !.open = "opened",
                               !.win = "win",
                               !.watcher = "watching",
                               !.clean = @ \o iframeTeardown("frame", "win")]
              ELSE [drv EXCEPT !.open = "failed"]
    /\ UNCHANGED <<envVars, childVars>>

\* The frame element leaves the document.
frameRemoved ==
    /\ drv.frame = "attached"
    /\ drv' = [drv EXCEPT !.frame = "removed"]
    /\ UNCHANGED <<envVars, childVars>>

\* The callback given to watchElementForClose: () => this.close()
frameWatcherFires ==
    /\ drv.watcher = "watching"
    /\ drv.frame = "removed"
    /\ drv' = [drv EXCEPT !.watcher = "fired", !.closeCalls = @ + 1]
    /\ UNCHANGED <<envVars, childVars>>

\* RENDER_DRIVERS[CONTEXT.IFRAME].openPrerender(proxyWin, proxyPrerenderFrame)
iframeOpenPrerender ==
    /\ drv.context = CONTEXT_TYPES.IFRAME
    /\ drv.prerender = "idle"
    /\ drv' = [drv EXCEPT !.prerender =
                  IF drv.proxyPrerenderFrame THEN "getting" ELSE "threw"]
    /\ UNCHANGED <<envVars, childVars>>

\* proxyPrerenderFrame.get() is settled.
prerenderFrameGot(ok) ==
    /\ drv.prerender = "getting"
    /\ drv' = IF ok
              THEN [drv EXCEPT !.prerender = "awaiting",
                               !.clean = Append(@, << Call("destroyElement", "prerenderFrame") >>)]
              ELSE [drv EXCEPT !.prerender = "failed"]
    /\ UNCHANGED <<envVars, childVars>>

\* awaitFrameWindow(prerenderFrame) and assertSameDomain are settled.
prerenderWindowReady(ok) ==
    /\ drv.prerender = "awaiting"
    /\ drv' = [drv EXCEPT !.prerender = IF ok THEN "done" ELSE "failed"]
    /\ UNCHANGED <<envVars, childVars>>

\* RENDER_DRIVERS[CONTEXT.POPUP].open({ windowName }); ok: popup() returns a window.
popupOpen(ok) ==
    /\ drv.context = CONTEXT_TYPES.POPUP
    /\ drv.open = "idle"
    /\ LET width == normalizeDimension(drv.dimensions.width, OuterWidth)
           height == normalizeDimension(drv.dimensions.height, OuterWidth)
       IN drv' = IF ok
                 THEN [drv EXCEPT !.open = "opened",
                                  !.win = "win",
                                  !.popupOptions = [name |-> drv.windowName,
                                                    width |-> width, height |-> height],
                                  !.clean = @ \o popupTeardown("win")]
                 ELSE [drv EXCEPT !.open = "failed"]
    /\ UNCHANGED <<envVars, childVars>>

\* RENDER_DRIVERS[CONTEXT.POPUP].openPrerender(proxyWin)
popupOpenPrerender ==
    /\ drv.context = CONTEXT_TYPES.POPUP
    /\ drv.prerender = "idle"
    /\ drv' = [drv EXCEPT !.prerender = "done"]
    /\ UNCHANGED <<envVars, childVars>>

WindowNames == {"xcomponent__foo__1", "xcomponent__bar__2"}
Dimensions == { [width |-> Px(300), height |-> Px(200)],
                [width |-> Pct(50), height |-> Pct(100)] }

\* A parent about to render one instance, in either context, with or without
\* the frame handles; no component is attached in the parent's own window.
InitDrivers ==
    /\ defaultProps \in [Inst -> DefaultBags]
    /\ throws = {}
    /\ Constructed
    /\ ~hasParent
    /\ ctxType = CONTEXT_TYPES.IFRAME
    /\ tag = [i \in Inst |-> winTag]
    /\ standalone = [i \in Inst |-> TRUE]
    /\ \E c \in {CONTEXT_TYPES.IFRAME, CONTEXT_TYPES.POPUP}, name \in WindowNames,
          pf \in BOOLEAN, ppf \in BOOLEAN, dim \in Dimensions :
           drv = [NoRender EXCEPT !.context = c, !.windowName = name,
                                  !.proxyFrame = pf, !.proxyPrerenderFrame = ppf,
                                  !.dimensions = dim]

NextDrivers ==
    \/ iframeOpen
    \/ \E ok \in BOOLEAN : frameGot(ok)
    \/ \E ok \in BOOLEAN : frameWindowReady(ok)
    \/ frameRemoved
    \/ frameWatcherFires
    \/ iframeOpenPrerender
    \/ \E ok \in BOOLEAN : prerenderFrameGot(ok)
    \/ \E ok \in BOOLEAN : prerenderWindowReady(ok)
    \/ \E ok \in BOOLEAN : popupOpen(ok)
    \/ popupOpenPrerender

SpecDrivers == InitDrivers /\ [][NextDrivers]_vars

\* ======================================================================
\* Properties
\* ======================================================================
NumCalls(i, cb) == Count(hist[i], Calls(hist[i], cb))
Inited(i) == pc[i] # "constructed"
InitEvents(i) == { e \in BagToSet(hist[i]) : e.op = "init" }
HandshakeStarted(i) == pc[i] \in {"awaiting", "running", "failed"}
ValueOf(bag, k) == bag[IndexOf(bag, k)][2]

\* new holds every key of inc with inc's value, every other key of old with
\* old's value, and no further key.
MergedOver(old, inc, new) ==
    /\ KeysOf(new) = KeysOf(old) \cup KeysOf(inc)
    /\ \A k \in KeysOf(inc) : ValueOf(new, k) = ValueOf(inc, k)
    /\ \A k \in KeysOf(old) \ KeysOf(inc) : ValueOf(new, k) = ValueOf(old, k)

C2_SecondAttachThrows ==
    \A i \in Inst :
        (Inited(i) /\ active \in Inst \ {i} /\ HandshakeStarted(active)) =>
            /\ pc[i] = "threw"
            /\ thrown[i].kind = "MultipleAttach"
            /\ \A e \in InitEvents(i) : e.ev # "send"

\* C3: with standalone false and a window name carrying another tag, init()
\* throws, having sent no message, registered no listener and started no
\* watcher; when resolution got as far as decoding the name (marker free, both
\* parent windows found) the error names the configured and the found tag.
C3_TagMismatchThrowsFirst ==
    \A i \in Inst :
        (Inited(i) /\ ~standalone[i] /\ tag[i] # winTag) =>
            /\ pc[i] = "threw"
            /\ InitEvents(i) = {}
            /\ listening[i] = {}
            /\ watchParent[i] = "none" /\ watchPC[i] = "none"
            /\ (active = i /\ hasParent /\ pcKind # "none") =>
                   thrown[i] = Err("TagMismatch", tag[i], winTag)

\* An instance whose init() threw the tag-mismatch error.
C3_Witness ==
    \E i \in Inst :
        /\ pc[i] = "threw"
        /\ thrown[i].kind = "TagMismatch"
        /\ thrown[i].tag # thrown[i].found

\* C4 (as claimed): init() returns silently after a setWindows failure only
\* when the failure is that no parent (component) window was found.
C4_OnlyNoParentSuppressed ==
    \A i \in Inst :
        (pc[i] = "standalone" /\ thrown[i] # NoErr) =>
            thrown[i].kind \in {"NoParent", "NoParentComponent"}

C6_InitReplyEntersThenProps ==
    [][ \A i \in Inst :
          (initReq[i] = "pending" /\ initReq'[i] = "resolved") =>
              /\ context'[i] = got'[i].reply.context
              /\ MergedOver(props[i], got'[i].reply.props, props'[i])
              /\ hist'[i] = hist[i] (+) SetToBag({
                     Stamp(CallEv("onEnter", NoErr), "initResolved", 1),
                     Stamp(CallEv("onProps", NoErr), "initResolved", 2) })
              /\ seen'[i].onEnter = props'[i]
              /\ seen'[i].onProps = props'[i] ]_vars

\* An instance that handled an INIT reply whose props changed its props.
C6_Witness ==
    \E i \in Inst :
        /\ initReq[i] = "resolved"
        /\ NumCalls(i, "onEnter") = 1
        /\ seen[i].onEnter # defaultProps[i]
        /\ context[i] = ctxType

\* C7: the step that handles the rejection of the INIT request calls onError
\* with the failure and nothing else, and leaves context and props unchanged;
\* onEnter is never called on an instance whose INIT request was rejected.
C7_InitRejectedToOnError ==
    /\ [][ \A i \in Inst :
             (initReq[i] = "pending" /\ initReq'[i] = "rejected") =>
                 /\ hist'[i] = hist[i] (+) SetToBag({
                        Stamp(CallEv("onError", DeliveryErr), "initRejected", 1) })
                 /\ context'[i] = context[i]
                 /\ props'[i] = props[i]
                 /\ seen'[i] = seen[i] ]_vars
    /\ [](\A i \in Inst : initReq[i] = "rejected" => NumCalls(i, "onEnter") = 0)

\* An instance whose INIT request was rejected and whose onError was called.
C7_Witness ==
    \E i \in Inst :
        /\ initReq[i] = "rejected"
        /\ \E e \in Calls(hist[i], "onError") : e.op = "initRejected" /\ e.arg = DeliveryErr

\* C8: each PROPS message merges its props into this.props (the message's keys
\* take the message's values, all other keys keep theirs) and calls onProps
\* once, after the merge.
C8_PropsMergedOncePerMessage ==
    /\ [][ \A i \in Inst :
             got'[i].nProps # got[i].nProps =>
                 /\ MergedOver(props[i], got'[i].props, props'[i])
                 /\ hist'[i] = hist[i] (+) SetToBag({
                        Stamp(CallEv("onProps", NoErr), "propsListener", 1) })
                 /\ seen'[i].onProps = props'[i] ]_vars
    /\ [](\A i \in Inst :
             Count(hist[i], { e \in Calls(hist[i], "onProps") : e.op = "propsListener" })
                 = got[i].nProps)

\* Defaults {x:1, y:1} and one PROPS message {x:2} giving {x:2, y:1}.
C8_Witness ==
    \E i \in Inst :
        /\ defaultProps[i] = << P("x", 1), P("y", 1) >>
        /\ got[i].nProps = 1
        /\ got[i].props = << P("x", 2) >>
        /\ props[i] = << P("x", 2), P("y", 1) >>
        /\ seen[i].onProps = props[i]

\* C9 (as claimed): once the parent-window watcher of an instance has fired,
\* onClose has been called (by the watcher with the parent-closed error, unless
\* an earlier trigger had used up the single call), and the local window has
\* been closed if and only if the window is a popup.
C9_ParentClosedClosesPopup ==
    \A i \in Inst :
        watchParent[i] = "fired" =>
            /\ NumCalls(i, "onClose") = 1
            /\ \A e \in Calls(hist[i], "onClose") :
                   e.op = "parentWindowClosed" => e.arg = Err("ParentClosed", tag[i], "-")
            /\ (ctxType = CONTEXT_TYPES.POPUP) = localClosed

\* C10: a parent-component watcher exists exactly for the instances that
\* resolved their windows with a parent-component window distinct from the
\* parent window; the step in which it fires calls onClose with the
\* component-closed error (unless onClose was used up) and then sends CLOSE to
\* the parent window, in any context type.
C10_ComponentClosedFullClose ==
    /\ [](\A i \in Inst :
             watchPC[i] # "none" <=> (watchParent[i] # "none" /\ pcKind = "distinct"))
    /\ [][ \A i \in Inst :
             (watchPC[i] = "watching" /\ watchPC'[i] = "fired") =>
                 hist'[i] = Record(hist[i], "parentComponentWindowClosed",
                     (IF NumCalls(i, "onClose") = 0
                      THEN << CallEv("onClose", Err("ComponentClosed", tag[i], "-")) >>
                      ELSE <<>>)
                     \o << SendEv(ParentWin, POST_MESSAGE.CLOSE) >>) ]_vars

\* An iframe instance whose distinct parent-component window closed while the
\* parent window stayed open: onClose got the error and CLOSE went to the parent.
C10_Witness ==
    \E i \in Inst :
        /\ ctxType = CONTEXT_TYPES.IFRAME
        /\ watchPC[i] = "fired"
        /\ open[ParentWin]
        /\ \E e \in Calls(hist[i], "onClose") :
               e.op = "parentComponentWindowClosed" /\ e.arg.kind = "ComponentClosed"
        /\ \E e \in Sends(hist[i], POST_MESSAGE.CLOSE) :
               e.op = "parentComponentWindowClosed" /\ e.to = ParentWin

\* C11: each call of error(err) sends exactly one ERROR message, to the
\* parent-component window.  For an err that is not an IntegrationError the
\* message's data is the text of the generic lifecycle error, the same whatever
\* err was; for an IntegrationError it is err's own message and stack (its
\* name and message when it has no stack).
C11_ErrorPayloadSanitized ==
    [][ \A i \in Inst :
          (called'.n # called.n /\ called'.op = "error" /\ called'.inst = i) =>
              LET err == called'.arg
                  generic == << "[", tag[i], "] Child lifecycle method threw an error",
                                "\n", "at error" >>
                  own == IF err.stack # ""
                         THEN err.message \o << "\n", err.stack >>
                         ELSE << err.name, ": " >> \o err.message
              IN hist'[i] = hist[i] (+) SetToBag({
                     Stamp(Ev("send", POST_MESSAGE.ERROR, getParentComponentWindow,
                              [error |-> IF err.integration THEN own ELSE generic]),
                           "error", 1) }) ]_vars

\* An instance that reported an IntegrationError and then an unknown error
\* carrying a secret: the first message has the error's own text, the second
\* the generic text.
C11_Witness ==
    /\ called.op = "error"
    /\ called.arg.message = << "secret 42" >>
    /\ pcKind = "distinct"
    /\ \E e \in Sends(hist[called.inst], POST_MESSAGE.ERROR) :
           e.to = ComponentWin /\ e.arg.error = << "bad prop", "\n", "at validate" >>
    /\ \E e \in Sends(hist[called.inst], POST_MESSAGE.ERROR) :
           e.to = ComponentWin /\ e.arg.error[3] = "] Child lifecycle method threw an error"
    /\ Count(hist[called.inst], Sends(hist[called.inst], POST_MESSAGE.ERROR)) = 2

\* C17: resize(width, height) on an instance whose context is popup resizes
\* the local window to width x height and sends nothing; on an instance whose
\* context is iframe it sends exactly one RESIZE message {width, height} to the
\* parent window and does not resize the local window.
C17_ResizeByContext ==
    [][ \A i \in Inst :
          (called'.n # called.n /\ called'.op = "resize" /\ called'.inst = i) =>
              LET width == called'.arg.width
                  height == called'.arg.height
              IN /\ context[i] = CONTEXT_TYPES.POPUP =>
                        hist'[i] = hist[i] (+) SetToBag({
                            Stamp(ResizeEv(width, height), "resize", 1) })
                 /\ context[i] = CONTEXT_TYPES.IFRAME =>
                        hist'[i] = hist[i] (+) SetToBag({
                            Stamp(Ev("send", POST_MESSAGE.RESIZE, ParentWin,
                                     [width |-> width, height |-> height]),
                                  "resize", 1) }) ]_vars

\* A running iframe instance with a distinct parent-component window that was
\* resized to 300 x 200: one RESIZE went to the parent window, none elsewhere.
C17_Witness ==
    \E i \in Inst :
        /\ context[i] = CONTEXT_TYPES.IFRAME
        /\ pcKind = "distinct"
        /\ called = [op |-> "resize", inst |-> i,
                     arg |-> [width |-> 300, height |-> 200], n |-> 1]
        /\ \A e \in Sends(hist[i], POST_MESSAGE.RESIZE) :
               e.to = ParentWin /\ e.arg = [width |-> 300, height |-> 200]
        /\ Count(hist[i], Sends(hist[i], POST_MESSAGE.RESIZE)) = 1
        /\ \A e \in BagToSet(hist[i]) : e.ev # "resizeTo"

\* C12 (as claimed): once a close trigger has acted on an instance, its
\* watchers are stopped and its listeners released: no watcher callback and no
\* message handler of that instance runs afterwards.
C12_NothingFiresAfterClose ==
    [][ \A i \in Inst :
          triggered[i] =>
              /\ got'[i].nProps = got[i].nProps
              /\ watchParent'[i] = "fired" => watchParent[i] = "fired"
              /\ watchPC'[i] = "fired" => watchPC[i] = "fired"
              /\ relay'[i] <= relay[i] ]_vars

\* The event at position n of the run of handler op that event e belongs to.
Following(i, e, n) ==
    { f \in BagToSet(hist[i]) : f.op = e.op /\ f.seq = e.seq + n }

C14_MergeAssociative ==
    \A i \in Inst :
        (initReq[i] = "resolved" /\ got[i].nProps = 1) =>
            LET d == defaultProps[i]
                h == got[i].reply.props
                u == got[i].props
            IN /\ extend(extend(d, h), u) = extend(d, extend(h, u))
               /\ props[i] = extend(d, extend(h, u))
               /\ MergedOver(extend(d, h), u, props[i])

\* Defaults {x:1, y:1}, handshake {y:2, x:2}, update {x:1}: the props are
\* {x:1, y:2}, in the defaults' key order.
C14_Witness ==
    /\ defaultProps[1] = << P("x", 1), P("y", 1) >>
    /\ initReq[1] = "resolved"
    /\ got[1].reply.props = << P("y", 2), P("x", 2) >>
    /\ got[1].nProps = 1
    /\ got[1].props = << P("x", 1) >>
    /\ props[1] = << P("x", 1), P("y", 2) >>

\* C15: an instance whose init() went on to the handshake has, in that run of
\* init(), registered a listener on the parent-component window, registered one
\* on the parent window exactly when that is a different window, and only after
\* both sent INIT; INIT is sent once in the instance's lifetime, to the
\* parent-component window and never to a parent window distinct from it.
C15_ListenBeforeInit ==
    \A i \in Inst :
        HandshakeStarted(i) =>
            LET listens == { e \in InitEvents(i) : e.ev = "listen" }
                inits == Sends(hist[i], POST_MESSAGE.INIT)
            IN /\ { e.to : e \in listens } =
                      {getParentComponentWindow} \cup
                      (IF pcKind = "distinct" THEN {ParentWin} ELSE {})
               /\ Count(hist[i], listens) = Cardinality(listens)
               /\ Count(hist[i], inits) = 1
               /\ \A s \in inits :
                      /\ s.op = "init"
                      /\ s.to = getParentComponentWindow
                      /\ \A l \in listens : l.seq < s.seq
               /\ \A l, m \in listens :
                      (l.to = getParentComponentWindow /\ m.to # l.to) => l.seq < m.seq

\* An instance with a parent-component window distinct from its parent window
\* that is through the handshake: two listeners, INIT sent to the component window.
C15_Witness ==
    \E i \in Inst :
        /\ pcKind = "distinct"
        /\ pc[i] = "running"
        /\ listening[i] = {ComponentWin, ParentWin}
        /\ \E s \in Sends(hist[i], POST_MESSAGE.INIT) : s.to = ComponentWin /\ s.seq = 5

\* C16: the step that handles a CLOSE message from the parent window calls
\* onClose (unless onClose was used up) and sends nothing; the step that handles
\* a CLOSE message from another window sends one CLOSE to the parent window and
\* calls no handler; and each failure of such a relayed CLOSE is handed to onError.
C16_CloseRoutedBySource ==
    /\ [][ \A i \in Inst :
             got'[i].nClose # got[i].nClose =>
                 IF got'[i].closeFrom = ParentWin
                 THEN /\ hist'[i] = Record(hist[i], "closeListener",
                             IF NumCalls(i, "onClose") = 0
                             THEN << CallEv("onClose", NoErr) >> ELSE <<>>)
                      /\ relay'[i] = relay[i]
                 ELSE /\ hist'[i] = hist[i] (+) SetToBag({
                             Stamp(SendEv(ParentWin, POST_MESSAGE.CLOSE), "closeListener", 1) })
                      /\ relay'[i] = relay[i] + 1 ]_vars
    /\ [](\A i \in Inst :
             Count(hist[i], { e \in Calls(hist[i], "onError") :
                                  e.op = "relayRejected" /\ e.arg = DeliveryErr })
                 = got[i].nRelayFailed)

\* An instance that relayed a CLOSE from its distinct parent-component window
\* to the parent window, saw the relay fail, and has not had onClose called.
C16_Witness ==
    \E i \in Inst :
        /\ got[i].closeFrom = ComponentWin
        /\ got[i].nClose = 1
        /\ got[i].nRelayFailed = 1
        /\ NumCalls(i, "onClose") = 0
        /\ NumCalls(i, "onError") = 1
        /\ \E e \in Sends(hist[i], POST_MESSAGE.CLOSE) :
               e.op = "closeListener" /\ e.to = ParentWin

\* C19: the single-instance marker is taken by the first init() of the window,
\* whether or not that instance's window resolution then succeeds, and is never
\* released or handed over afterwards (not by a failed resolution, the
\* standalone fallback or a close); every other init() in the window fails
\* window resolution with the multiple-attach error.
C19_MarkerNeverCleared ==
    /\ [][ active # 0 => active' = active ]_vars
    /\ [](\A i \in Inst :
             Inited(i) =>
                 /\ active # 0
                 /\ (active = i) = (thrown[i].kind # "MultipleAttach"))

\* The first instance failed window resolution on the tag and was closed; the
\* second, with the right tag, still got the multiple-attach error.
C19_Witness ==
    \E i, j \in Inst :
        /\ active = i
        /\ thrown[i].kind = "TagMismatch"
        /\ triggered[i]
        /\ tag[j] = winTag
        /\ thrown[j].kind = "MultipleAttach"

\* C20 (as claimed): whatever the order in which the INIT reply and PROPS
\* messages are handled, onProps is not called before onEnter has been, and the
\* step that handles the INIT reply does not change the value of a key that the
\* last PROPS message handled before it had delivered.
C20_EnterBeforeProps ==
    /\ [](\A i \in Inst : NumCalls(i, "onProps") > 0 => NumCalls(i, "onEnter") > 0)
    /\ [][ \A i \in Inst :
             (initReq[i] = "pending" /\ initReq'[i] = "resolved" /\ got[i].nProps > 0) =>
                 \A k \in KeysOf(got[i].props) :
                     ValueOf(props'[i], k) = ValueOf(got[i].props, k) ]_vars

\* The calls made by the functions registered with this.clean.
CleanCalls ==
    UNION { { drv.clean[n][m] : m \in 1..Len(drv.clean[n]) } : n \in 1..Len(drv.clean) }

\* C18: when a driver's open has resolved with a window, teardown for what it
\* acquired is registered: the iframe driver has registered, in this order,
\* cancelling the frame-removal watcher, destroying the frame element and
\* cleaning up the window, and no closing of the window, and its watcher is
\* running and calls the instance's close once the frame is gone; the popup
\* driver has registered one function that closes the window and then cleans
\* it up.  As long as open has not produced a window, failed opens included,
\* nothing is registered for the frame or the window.
C18_TeardownRegisteredOnOpen ==
    /\ []( /\ (drv.open = "opened" /\ drv.context = CONTEXT_TYPES.IFRAME) =>
                  /\ \E n \in 1..Len(drv.clean) :
                         /\ n + 2 <= Len(drv.clean)
                         /\ drv.clean[n] = << Call("frameWatcher.cancel", "frame") >>
                         /\ drv.clean[n + 1] = << Call("destroyElement", "frame") >>
                         /\ drv.clean[n + 2] = << Call("cleanUpWindow", "win") >>
                  /\ \A c \in CleanCalls : c.fn # "closeWindow"
                  /\ drv.watcher \in {"watching", "fired"}
           /\ (drv.open = "opened" /\ drv.context = CONTEXT_TYPES.POPUP) =>
                  drv.clean = << << Call("closeWindow", "win"), Call("cleanUpWindow", "win") >> >>
           /\ drv.open # "opened" =>
                  /\ drv.win = Null
                  /\ drv.watcher = "none"
                  /\ \A c \in CleanCalls : c.on = "prerenderFrame" )
    /\ [][ /\ (drv.watcher = "watching" /\ drv.frame = "attached" /\ drv'.frame = "removed")
               => drv'.closeCalls = drv.closeCalls
           /\ (drv.watcher = "watching" /\ drv'.watcher = "fired")
               => (drv.frame = "removed" /\ drv'.closeCalls = drv.closeCalls + 1)
           /\ drv'.closeCalls # drv.closeCalls => drv'.watcher = "fired" ]_vars

\* An iframe whose pre-render frame and frame were opened, in that order, and
\* whose frame element was then removed: four functions are registered and the
\* watcher has called close once.
C18_Witness ==
    /\ drv.context = CONTEXT_TYPES.IFRAME
    /\ drv.open = "opened"
    /\ drv.win = "win"
    /\ Len(drv.clean) = 4
    /\ drv.clean[1] = << Call("destroyElement", "prerenderFrame") >>
    /\ drv.frame = "removed"
    /\ drv.watcher = "fired"
    /\ drv.closeCalls = 1

====
